---- MODULE Spec2Model ----
(***************************************************************************)
(* TopKeywordsJob (src/src/movies/job.py): a two-step map/combine/reduce   *)
(* job.  Step 1: mapper_csv -> combiner_sum -> reducer, grouped by         *)
(* (word, genre).  Step 2: reducer_sort, grouped by genre.                 *)
(***************************************************************************)
EXTENDS Integers, Sequences, FiniteSets

(* ------------------------------ bounds --------------------------------- *)
MaxRecords == 2
MaxTitle == 2
MaxK == 2
NumWorkers == 2

(* ------------------------------ inputs --------------------------------- *)
\* Words a title is made of; "the" is a stop word the preprocessing removes.
RawWords == {"dark", "water", "the"}
StopWords == {"the"}
Genres == {"Action", "Drama"}
Sep == "|"
\* An empty cell of the CSV; pandas.read_csv hands it back as the float NaN.
EmptyCell == <<>>
\* options.maxWords is <<k>> when -m/--maxWords k is given and None when not.
None == <<>>

SeqsUpTo(S, n) == UNION {[1..m -> S] : m \in 0..n}

Titles == SeqsUpTo(RawWords, MaxTitle)

\* A genres cell: labels joined by "|", each label at most once.
GenreFields == {<<"Action">>, <<"Drama">>, <<"Action", Sep, "Drama">>}

Records == [title : Titles, genres : GenreFields \cup {EmptyCell}]

Corpora == SeqsUpTo(Records, MaxRecords)

\* maxWords is declared type=int with no default and no range check.
KValues == {<<k>> : k \in -1..MaxK} \cup {None}

Max(a, b) == IF a >= b THEN a ELSE b
Min(a, b) == IF a <= b THEN a ELSE b

\* The ways of splitting n records over input files, up to renaming the files.
Partitions(n) ==
  {a \in [1..n -> 1..NumWorkers] :
     \A i \in 1..n :
       a[i] <= (IF i = 1 THEN 1
                ELSE 1 + CHOOSE m \in 1..NumWorkers :
                           /\ \E j \in 1..(i-1) : a[j] = m
                           /\ \A j \in 1..(i-1) : a[j] <= m)}

VARIABLES
  corpus,     \* the rows of all input CSV files
  assign,     \* assign[i]: the input file (mapper task) row i belongs to
  maxWords,   \* self.options.maxWords
  mapped,     \* mapper tasks that have returned
  failed,     \* a task raised: the job is aborted
  mapOut,     \* mapOut[w]: the pairs buffered on mapper node w (combiner applies)
  rawOut,     \* rawOut[w]: the pairs mapper_csv yielded on node w, untouched
  reduced,    \* (word, genre) keys the step-1 reducer has consumed
  round1,     \* round1[g]: the values step 1 emitted under genre g, in order
  round1Raw,  \* the same with the combiner left out
  sorted,     \* genres reducer_sort has consumed
  output,     \* output[g]: the records the job emitted under genre g, in order
  outputRaw,  \* the same with the combiner left out
  run,        \* which execution of the job this is
  prevOutput  \* the output of the previous execution

vars == <<corpus, assign, maxWords, mapped, failed, mapOut, rawOut, reduced,
          round1, round1Raw, sorted, output, outputRaw, run, prevOutput>>

Workers == {assign[i] : i \in DOMAIN assign}

(* --------------------------- pure helpers ------------------------------ *)
RECURSIVE Sum(_)
Sum(values) == IF values = <<>> THEN 0 ELSE Head(values) + Sum(Tail(values))

RECURSIVE Concat(_)
Concat(seqs) == IF seqs = <<>> THEN <<>> ELSE Head(seqs) \o Concat(Tail(seqs))

\* util.preprocessing.preprocess_text followed by str.split(): the title's
\* tokens, stop words removed.
preprocess_text(title) == SelectSeq(title, LAMBDA x : x \notin StopWords)

\* str.split("|") on a cell given as a sequence of chunks.
RECURSIVE SplitAcc(_, _, _)
SplitAcc(s, cur, acc) ==
  IF s = <<>> THEN Append(acc, cur)
  ELSE IF Head(s) = Sep THEN SplitAcc(Tail(s), <<>>, Append(acc, cur))
  ELSE SplitAcc(Tail(s), Append(cur, Head(s)), acc)

JoinChunks(group) ==
  IF group = <<>> THEN "" ELSE IF Len(group) = 1 THEN group[1] ELSE group

split(field) ==
  LET groups == SplitAcc(field, <<>>, <<>>)
  IN  [i \in 1..Len(groups) |-> JoinChunks(groups[i])]


(* ------------------------------ step 1 --------------------------------- *)
\* map_row with the loop over genres cut to the first label.
map_row_first_genre(data) ==
  LET title_words == preprocess_text(data.title)
      genres == SubSeq(split(data.genres), 1, 1)
  IN  Concat([g \in 1..Len(genres) |->
                [j \in 1..Len(title_words) |->
                   <<<<title_words[j], genres[g]>>, 1>>]])

\* Body of the loop of mapper_csv for one row: the pairs it yields.
map_row(data) ==
  LET title_words == preprocess_text(data.title)
      genres == split(data.genres)
  IN  Concat([g \in 1..Len(genres) |->
                [j \in 1..Len(title_words) |->
                   <<<<title_words[j], genres[g]>>, 1>>]])

\* mapper_csv over the rows of one file: what it yields, and whether it raised.
\* An empty genres cell is the float NaN: .split raises AttributeError.
IsNaN(cell) == cell = EmptyCell

RECURSIVE mapper_csv(_)
mapper_csv(rows) ==
  IF rows = <<>> THEN [out |-> <<>>, raised |-> FALSE]
  ELSE IF IsNaN(Head(rows).genres) THEN [out |-> <<>>, raised |-> TRUE]
  ELSE LET rest == mapper_csv(Tail(rows))
       IN  [out |-> map_row(Head(rows)) \o rest.out, raised |-> rest.raised]

\* combiner_sum counting the values instead of adding them.
combiner_count(key, values) == << <<key, Len(values)>> >>

combiner_sum(key, values) == << <<key, Sum(values)>> >>

\* reducer counting the partial counts instead of adding them.
reducer_count(key, values) ==
  LET word == key[1]
      genre == key[2]
  IN  << <<genre, <<word, Len(values)>>>> >>

reducer(key, values) ==
  LET word == key[1]
      genre == key[2]
  IN  << <<genre, <<word, Sum(values)>>>> >>

(* ------------------------------ step 2 --------------------------------- *)
\* Insert x behind every element whose count is >= x's: sorted() is stable,
\* and with reverse=True equal elements keep their arrival order.
RECURSIVE InsertDesc(_, _)
InsertDesc(x, xs) ==
  IF xs = <<>> THEN <<x>>
  ELSE IF Head(xs)[2] >= x[2] THEN <<Head(xs)>> \o InsertDesc(x, Tail(xs))
  ELSE <<x>> \o xs

RECURSIVE SortedDescAcc(_, _)
SortedDescAcc(values, acc) ==
  IF values = <<>> THEN acc
  ELSE SortedDescAcc(Tail(values), InsertDesc(Head(values), acc))

\* sorted() without reverse=True.
RECURSIVE InsertAsc(_, _)
InsertAsc(x, xs) ==
  IF xs = <<>> THEN <<x>>
  ELSE IF Head(xs)[2] <= x[2] THEN <<Head(xs)>> \o InsertAsc(x, Tail(xs))
  ELSE <<x>> \o xs

RECURSIVE SortedAscAcc(_, _)
SortedAscAcc(values, acc) ==
  IF values = <<>> THEN acc
  ELSE SortedAscAcc(Tail(values), InsertAsc(Head(values), acc))

sorted_asc(values) == SortedAscAcc(values, <<>>)

\* sorted(values, key=lambda x: x[1], reverse=True)
sorted_desc(values) == SortedDescAcc(values, <<>>)

\* xs[:k] as Python slices: None keeps all, a negative k counts from the end.
Slice(xs, k) ==
  IF k = None THEN xs
  ELSE IF k[1] >= 0 THEN SubSeq(xs, 1, Min(k[1], Len(xs)))
  ELSE SubSeq(xs, 1, Max(0, Len(xs) + k[1]))

reducer_sort(key, values) ==
  LET top_size == maxWords
      top == Slice(sorted_desc(values), top_size)
  IN  [i \in 1..Len(top) |-> <<key, top[i]>>]

(* --------------------------- the framework ----------------------------- *)
\* The rows of input file w, in file order.
RECURSIVE RowsFrom(_, _)
RowsFrom(w, i) ==
  IF i > Len(corpus) THEN <<>>
  ELSE (IF assign[i] = w THEN <<corpus[i]>> ELSE <<>>) \o RowsFrom(w, i + 1)

Rows(w) == RowsFrom(w, 1)

KeysOf(stream) == {stream[i][1] : i \in 1..Len(stream)}

\* The values a stream carries for one key, in stream order.
ValuesOf(stream, key) ==
  LET hits == SelectSeq(stream, LAMBDA p : p[1] = key)
  IN  [i \in 1..Len(hits) |-> hits[i][2]]

PresentKeys == UNION {KeysOf(mapOut[w]) : w \in 1..NumWorkers}

Perms(S) ==
  {p \in [1..Cardinality(S) -> S] : \A i, j \in 1..Cardinality(S) : p[i] = p[j] => i = j}

\* A stream with the entries at positions S replaced, at the first of them,
\* by the pairs in repl.
RECURSIVE Replace(_, _, _, _)
Replace(stream, S, repl, i) ==
  IF i > Len(stream) THEN <<>>
  ELSE (IF i \notin S THEN <<stream[i]>>
        ELSE IF \A j \in S : i <= j THEN repl ELSE <<>>)
       \o Replace(stream, S, repl, i + 1)

RECURSIVE Pick(_, _, _)
Pick(stream, S, i) ==
  IF i > Len(stream) THEN <<>>
  ELSE (IF i \in S THEN <<stream[i][2]>> ELSE <<>>) \o Pick(stream, S, i + 1)

\* The shuffle: every yielded (key, value) joins the values of its key.
RECURSIVE Deliver(_, _)
Deliver(groups, pairs) ==
  IF pairs = <<>> THEN groups
  ELSE Deliver([groups EXCEPT ![Head(pairs)[1]] = Append(@, Head(pairs)[2])],
               Tail(pairs))

Init ==
  /\ corpus \in Corpora
  /\ assign \in Partitions(Len(corpus))
  /\ maxWords \in KValues
  /\ mapped = {}
  /\ failed = FALSE
  /\ mapOut = [w \in 1..NumWorkers |-> <<>>]
  /\ rawOut = [w \in 1..NumWorkers |-> <<>>]
  /\ reduced = {}
  /\ round1 = [g \in Genres |-> <<>>]
  /\ round1Raw = [g \in Genres |-> <<>>]
  /\ sorted = {}
  /\ output = [g \in Genres |-> <<>>]
  /\ outputRaw = [g \in Genres |-> <<>>]
  /\ run = 1
  /\ prevOutput = [g \in Genres |-> <<>>]

\* One mapper task: mapper_raw=mapper_csv on input file w.  An exception
\* aborts the job.
Mapper(w) ==
  /\ ~failed
  /\ w \in Workers \ mapped
  /\ LET r == mapper_csv(Rows(w))
     IN  /\ mapOut' = [mapOut EXCEPT ![w] = r.out]
         /\ rawOut' = [rawOut EXCEPT ![w] = r.out]
         /\ failed' = r.raised
         /\ mapped' = IF r.raised THEN mapped ELSE mapped \cup {w}
  /\ UNCHANGED <<corpus, assign, maxWords, reduced, round1, round1Raw, sorted,
                 output, outputRaw, run, prevOutput>>

\* The framework runs the combiner on node w over some of the buffered
\* values of one key, any number of times before the shuffle.
Combiner(w, key, S) ==
  /\ ~failed
  /\ w \in mapped
  /\ key \notin reduced
  /\ S # {}
  /\ \A i \in S : i \in 1..Len(mapOut[w]) /\ mapOut[w][i][1] = key
  /\ mapOut' = [mapOut EXCEPT
                  ![w] = Replace(@, S, combiner_sum(key, Pick(@, S, 1)), 1)]
  /\ UNCHANGED <<corpus, assign, maxWords, mapped, failed, rawOut, reduced,
                 round1, round1Raw, sorted, output, outputRaw, run, prevOutput>>

\* Shuffle of step 1 and one reducer call: every value of the key, from all
\* nodes, in the order the nodes' outputs arrive.
Reducer(key, order) ==
  /\ ~failed
  /\ mapped = Workers
  /\ key \in PresentKeys \ reduced
  /\ round1' = Deliver(round1,
       reducer(key, Concat([i \in 1..Len(order) |-> ValuesOf(mapOut[order[i]], key)])))
  /\ round1Raw' = Deliver(round1Raw,
       reducer(key, Concat([i \in 1..Len(order) |-> ValuesOf(rawOut[order[i]], key)])))
  /\ reduced' = reduced \cup {key}
  /\ UNCHANGED <<corpus, assign, maxWords, mapped, failed, mapOut, rawOut,
                 sorted, output, outputRaw, run, prevOutput>>

Round1Done == ~failed /\ mapped = Workers /\ reduced = PresentKeys

\* The genres step 2 has values for.
Received == {g \in Genres : round1[g] # <<>>}

\* Shuffle of step 2 and one reducer_sort call.
ReducerSort(genre) ==
  /\ Round1Done
  /\ genre \in Received \ sorted
  /\ output' = Deliver(output, reducer_sort(genre, round1[genre]))
  /\ outputRaw' = Deliver(outputRaw, reducer_sort(genre, round1Raw[genre]))
  /\ sorted' = sorted \cup {genre}
  /\ UNCHANGED <<corpus, assign, maxWords, mapped, failed, mapOut, rawOut,
                 reduced, round1, round1Raw, run, prevOutput>>

Done == Round1Done /\ sorted = Received

\* The job is run again on the same input with the same options.
Rerun ==
  /\ Done
  /\ run = 1
  /\ run' = 2
  /\ prevOutput' = output
  /\ assign' \in Partitions(Len(corpus))
  /\ mapped' = {}
  /\ failed' = FALSE
  /\ mapOut' = [w \in 1..NumWorkers |-> <<>>]
  /\ rawOut' = [w \in 1..NumWorkers |-> <<>>]
  /\ reduced' = {}
  /\ round1' = [g \in Genres |-> <<>>]
  /\ round1Raw' = [g \in Genres |-> <<>>]
  /\ sorted' = {}
  /\ output' = [g \in Genres |-> <<>>]
  /\ outputRaw' = [g \in Genres |-> <<>>]
  /\ UNCHANGED <<corpus, maxWords>>

AllKeys == {<<t, g>> : t \in RawWords \ StopWords, g \in Genres}

MapperStep == \E w \in 1..NumWorkers : Mapper(w)

CombinerStep ==
  \E w \in 1..NumWorkers, key \in AllKeys :
    \E S \in SUBSET {i \in 1..Len(mapOut[w]) : mapOut[w][i][1] = key} :
      Combiner(w, key, S)

ReducerStep == \E key \in AllKeys, order \in Perms(Workers) : Reducer(key, order)

ReducerSortStep == \E genre \in Genres : ReducerSort(genre)

Next ==
  \/ MapperStep
  \/ CombinerStep
  \/ ReducerStep
  \/ ReducerSortStep

Spec == Init /\ [][Next]_vars

NextRerun ==
  \/ Next
  \/ Rerun

SpecRerun == Init /\ [][NextRerun]_vars


(* ------------------------- reference quantities ------------------------ *)
AllTokens == RawWords \ StopWords

SetOf(seq) == {seq[i] : i \in 1..Len(seq)}

WellFormed(i) == ~IsNaN(corpus[i].genres)

TokensOf(i) == preprocess_text(corpus[i].title)

LabelsOf(i) == IF WellFormed(i) THEN SetOf(split(corpus[i].genres)) ELSE {}

\* The occurrences of token t in the rows I that carry label g: one per
\* (row, position) with the row labelled g.
OccurrencesIn(I, t, g) ==
  Cardinality({p \in I \X (1..MaxTitle) :
                 /\ g \in LabelsOf(p[1])
                 /\ p[2] <= Len(TokensOf(p[1]))
                 /\ TokensOf(p[1])[p[2]] = t})

Occurrences(t, g) == OccurrencesIn(1..Len(corpus), t, g)

RowsOfWorker(w) == {i \in 1..Len(corpus) : assign[i] = w}

\* The entries of a genre's values that carry token t.
Hits(values, t) == SelectSeq(values, LAMBDA p : p[1] = t)

Counts(values) == [i \in 1..Len(values) |-> values[i][2]]

ValidK == maxWords # None /\ maxWords[1] >= 1

(* ------------------------------- claims -------------------------------- *)

C2_CombinerTransparent ==
  /\ round1 = round1Raw
  /\ output = outputRaw

\* C2 witness: the job is complete with output, and the combiner has merged
\* pairs on some node.
C2_Witness ==
  /\ Done
  /\ \E g \in Genres : output[g] # <<>>
  /\ \E w \in 1..NumWorkers : Len(mapOut[w]) < Len(rawOut[w])

\* C3: for K >= 1 and a genre with n (token, count) pairs, reducer_sort emits
\* min(K, n) of them, without repetition, in non-increasing order of count,
\* and no pair left out has a larger count than an emitted one.
C3_TopK ==
  ValidK =>
    \A g \in sorted :
      LET out == output[g]
          n == Len(round1[g])
      IN  /\ Len(out) = Min(maxWords[1], n)
          /\ SetOf(out) \subseteq SetOf(round1[g])
          /\ Cardinality(SetOf(out)) = Len(out)
          /\ \A i \in 1..Len(out) : \A j \in i..Len(out) : out[i][2] >= out[j][2]
          /\ \A x \in SetOf(round1[g]) \ SetOf(out) :
               \A y \in SetOf(out) : x[2] <= y[2]

\* C3 witness: a genre with more pairs than K whose smaller count arrived
\* first has been sorted and cut.
C3_Witness ==
  /\ ValidK
  /\ \E g \in sorted :
       /\ Len(round1[g]) > maxWords[1]
       /\ round1[g][1][2] < round1[g][2][2]
       /\ output[g] # <<>>

\* C4: with K zero or negative reducer_sort emits nothing for any genre.
C4_NothingForBadK ==
  (maxWords # None /\ maxWords[1] <= 0) => \A g \in Genres : output[g] = <<>>

\* C5: two executions of the job on the same input with the same K >= 1
\* emit, for every genre, the same set of (token, count) pairs, whatever the
\* partitioning and the arrival orders; only the order within a genre's list
\* may differ.
C5_SameResultSets ==
  (ValidK /\ run = 2 /\ Done) =>
    \A g \in Genres : SetOf(output[g]) = SetOf(prevOutput[g])

\* C6: the completed job has emitted exactly one record for each genre that
\* received a token, and none for any other genre (K valid).
C6_OneRecordPerGenre ==
  (Done /\ ValidK) =>
    \A g \in Genres : Len(output[g]) = IF round1[g] # <<>> THEN 1 ELSE 0

\* C7: when the job has ended, every well-formed row has contributed all of
\* its (token, genre) pairs to the counts, also when other rows lack their
\* genres (K valid).
C7_MalformedSkipped ==
  (ValidK /\ (failed \/ Done)) =>
    \A t \in AllTokens, g \in Genres :
      Occurrences(t, g) > 0 => <<t, Occurrences(t, g)>> \in SetOf(round1[g])

\* C8: with K not supplied, zero or negative, no mapper, combiner or reducer
\* step executes and nothing is emitted.
C8_InvalidKRejected ==
  ~ValidK =>
    /\ mapped = {}
    /\ ~failed
    /\ reduced = {}
    /\ sorted = {}
    /\ \A g \in Genres : output[g] = <<>>

\* The number of pairs mapper_csv owes for the rows I: tokens times labels.
RECURSIVE OwedPairs(_)
OwedPairs(I) ==
  IF I = {} THEN 0
  ELSE LET i == CHOOSE x \in I : TRUE
       IN  Len(TokensOf(i)) * Cardinality(LabelsOf(i)) + OwedPairs(I \ {i})

\* C9: a mapper task that has returned has emitted, for each of its rows with
\* tokens T and labels C, |T| x |C| pairs: ((t, c), 1) once for each
\* occurrence of t in T and each c in C, the full count for every label.
C9_MapperEmission ==
  \A w \in mapped :
    /\ Len(rawOut[w]) = OwedPairs(RowsOfWorker(w))
    /\ \A i \in 1..Len(rawOut[w]) : rawOut[w][i][2] = 1
    /\ \A t \in AllTokens, g \in Genres :
         Len(ValuesOf(rawOut[w], <<t, g>>)) = OccurrencesIn(RowsOfWorker(w), t, g)

\* C9 witness: a mapper task has returned whose file is one row with a
\* repeated token and two genres.
C9_Witness ==
  \E w \in mapped :
    /\ Cardinality(RowsOfWorker(w)) = 1
    /\ \E i \in RowsOfWorker(w) :
         /\ Cardinality(LabelsOf(i)) = 2
         /\ Len(TokensOf(i)) = 2
         /\ TokensOf(i)[1] = TokensOf(i)[2]
    /\ Len(rawOut[w]) = 4

\* C10: a mapper task whose file holds a row with tokens and an empty genres
\* cell returns normally, having emitted only the pairs of its other rows (K
\* valid).
C10_NoLabelsNoEmission ==
  \A w \in Workers :
    (/\ ValidK
     /\ \E i \in RowsOfWorker(w) : ~WellFormed(i) /\ TokensOf(i) # <<>>
     /\ w \in mapped \/ failed) =>
      /\ ~failed
      /\ Len(rawOut[w]) = OwedPairs(RowsOfWorker(w))

====
